---- MODULE Spec2Model ----
(***************************************************************************)
(* System V shared-memory channel of NodeJS_PythonIPC.                     *)
(*                                                                         *)
(* Two SharedMemory classes are modelled: the ctypes one                   *)
(* (shared_memoryPythonSystemV.py) and the sysv_ipc one (py_ipc.py).  The  *)
(* kernel side (shmget / shmat / shmdt / shmctl(IPC_RMID)) follows Linux,  *)
(* which is what 'libc.so.6' binds the code to: a segment marked for       *)
(* removal loses its key at once and is destroyed at its last detach.      *)
(*                                                                         *)
(* The main program of py_ipc.py (a polling monitor) and the Unix-socket     *)
(* server of old/python/python_IPC.py have a specification each.           *)
(*                                                                         *)
(* Bytes are integers 0..255.  The 4-byte length prefix is little-endian   *)
(* (the native order of the machines the code runs on).  Payloads are      *)
(* JSON numbers written with the digits 1 and 2: the one JSON shape whose  *)
(* proper prefixes are themselves valid JSON texts.                        *)
(***************************************************************************)
EXTENDS Integers, Sequences, FiniteSets, TLC

\* ------------------------------------------------------------- bounds
\* Payload capacity (bytes after the header) of the smaller segment size.
MaxData == 2
\* Number of segment ids the kernel hands out in a run.
MaxSegs == 2

\* ---------------------------------------------------- program constants
\* Size of the length prefix ('=I' / 'i').
HeaderLen == 4
\* Python's None as a payload / return value (payloads are naturals).
NoneVal == -1
\* self.shmid = None
NoShmid == -2
\* Return value of a failing shmget.
ShmgetFailed == -1
\* What is mapped at a handle's address: nothing, or nothing valid
\* (the address (void* )-1 that a failing shmat returns).
NoSeg == 0
BadAddr == -1
\* Key of a segment marked for removal (IPC_PRIVATE).
IpcPrivate == 0

\* The processes, each holding one SharedMemory object.
Handles == {1, 2, 3}
SegIds == 1..MaxSegs
\* One key shared by all processes (5678 in the ctypes program).
SegKey == 5678
SmallSize == HeaderLen + MaxData
BigSize == SmallSize + 1
Sizes == {SmallSize, BigSize}

\* Bytes that occur in a segment: NUL, the digits '1' and '2', and 0xFF
\* (never part of a UTF-8 text).
DataBytes == {0, 49, 50, 255}

\* ------------------------------------------------------------- codec
RECURSIVE Digits(_)
\* str(v) of a natural v, as ASCII codes.
Digits(v) == IF v < 10 THEN <<48 + v>> ELSE Digits(v \div 10) \o <<48 + (v % 10)>>

\* json.dumps(data).encode('utf-8') for an int payload.
JsonBytes(v) == Digits(v)

\* bytes.decode('utf-8') succeeds (on DataBytes: no byte above 127).
Utf8Ok(bs) == \A i \in 1..Len(bs) : bs[i] < 128

RECURSIVE DigitsValue(_)
DigitsValue(bs) ==
    IF Len(bs) = 0 THEN 0
    ELSE 10 * DigitsValue(SubSeq(bs, 1, Len(bs) - 1)) + (bs[Len(bs)] - 48)

\* json.loads accepts the text (a JSON number without sign, fraction or
\* exponent; a NUL or any other byte makes it raise JSONDecodeError).
JsonOk(bs) ==
    /\ Len(bs) > 0
    /\ \A i \in 1..Len(bs) : bs[i] \in 48..57
    /\ (Len(bs) > 1 => bs[1] # 48)

JsonValue(bs) == DigitsValue(bs)

\* struct.pack('=I' / 'i', n) for 0 <= n < 2^31.
PackLen(n) == [i \in 0..3 |-> (n \div (256 ^ i)) % 256]

\* struct.unpack_from('=I', memory, 0)[0].  Values of 2^31 and more do not
\* fit TLC's integers; they are reported as 2^31 - 1, which compares
\* with the small sizes of the model exactly as the true value does.
UnpackU32(m) ==
    IF m[3] >= 128 THEN 2147483647
    ELSE m[0] + 256 * m[1] + 65536 * m[2] + 16777216 * m[3]

\* struct.unpack('i', length_bytes)[0]: two's complement.
UnpackI32(m) ==
    m[0] + 256 * m[1] + 65536 * m[2]
      + 16777216 * (IF m[3] >= 128 THEN m[3] - 256 ELSE m[3])

Min(a, b) == IF a < b THEN a ELSE b

\* bytes(memory[lo:hi]) as a sequence.
Slice(m, lo, hi) == [i \in 1..(hi - lo) |-> m[lo + i - 1]]


\* -------------------------------------------------- outcome of a call
\* What a caller observes of one call, plus what the call did underneath:
\* kind  "return" | "raise" | "crash" (the process dies of SIGSEGV),
\* val   the value returned (NoneVal for None),
\* exc   the exception raised,
\* cause why a read gave no payload: "idle" (length prefix rejected or
\*       zero), "decode" (UTF-8 or JSON failure), "detached", or "ok",
\* hi    one more than the highest byte index the call touched,
\* sys   the number of shmdt / shmctl calls the call made,
\* osfail whether one of them failed.
Outcome(kind, val, exc, cause, hi, sys, osfail) ==
    [kind |-> kind, val |-> val, exc |-> exc, cause |-> cause, hi |-> hi,
     sys |-> sys, osfail |-> osfail]

Returned(val, cause, hi) == Outcome("return", val, "", cause, hi, 0, FALSE)
Raised(exc, cause, hi) == Outcome("raise", NoneVal, exc, cause, hi, 0, FALSE)
Crashed == Outcome("crash", NoneVal, "SIGSEGV", "", 0, 0, FALSE)

\* ------------------------------------------ read(), on a mapped region
\* A range check that forgets the header: it compares with the size.
LengthRejectedLoose(length, size) == length <= 0 \/ length > size

\* The range check of the ctypes read().
LengthRejected(length, size) == length <= 0 \/ length > size - HeaderLen

\* SharedMemory.read of shared_memoryPythonSystemV.py over region m with
\* self.size = size.  Every exception is caught and turned into None.  A
\* slice of a ctypes array stops at the array's end.
ReadCtypes(m, size) ==
    LET length == UnpackU32(m)
    IN  IF LengthRejected(length, size)
        THEN Returned(NoneVal, "idle", HeaderLen)
        ELSE LET end == Min(HeaderLen + length, size)
                 bs  == Slice(m, HeaderLen, end)
             IN  IF Utf8Ok(bs) /\ JsonOk(bs)
                 THEN Returned(JsonValue(bs), "ok", end)
                 ELSE Returned(NoneVal, "decode", end)

\* sysv_ipc's SharedMemory.read(byte_count, offset) reads to the end of the
\* segment when byte_count is 0 or reaches past the end.
SysvReadCount(length, segsize) ==
    IF length = 0 \/ length > segsize - HeaderLen THEN segsize - HeaderLen ELSE length

\* SharedMemory.read of py_ipc.py over region m of a segment of segsize
\* bytes.  Nothing is caught: every failure is raised to the caller.
ReadSysv(m, segsize) ==
    LET length == UnpackI32(m)
        cause  == IF length <= 0 \/ length > segsize - HeaderLen THEN "idle" ELSE "decode"
    IN  IF length < 0
        THEN Raised("ValueError", "idle", HeaderLen)
        ELSE LET cnt == SysvReadCount(length, segsize)
                 bs  == Slice(m, HeaderLen, HeaderLen + cnt)
             IN  IF ~Utf8Ok(bs) THEN Raised("UnicodeDecodeError", cause, HeaderLen + cnt)
                 ELSE IF ~JsonOk(bs) THEN Raised("JSONDecodeError", cause, HeaderLen + cnt)
                 ELSE Returned(JsonValue(bs), "ok", HeaderLen + cnt)

\* ----------------------------------------- write(), on a mapped region
\* A write() that does not clear the region.
NoZeroFill(m, size) == m

\* A memset that clears the length prefix only.
ZeroFillPrefix(m, size) == [i \in DOMAIN m |-> IF i < HeaderLen THEN 0 ELSE m[i]]

\* ctypes.memset(addressof(self.memory), 0, self.size)
ZeroFill(m, size) == [i \in DOMAIN m |-> IF i < size THEN 0 ELSE m[i]]

\* struct.pack_into('=I', self.memory, 0, n) / self.memory.write(length_bytes)
StoreLen(m, n) == [i \in DOMAIN m |-> IF i < HeaderLen THEN PackLen(n)[i] ELSE m[i]]

\* self.memory[4 + i] = bytes([b])
StoreByte(m, i, b) == [m EXCEPT ![HeaderLen + i] = b]

\* The first k payload bytes stored one by one.
StoreBytes(m, bs, k) ==
    [i \in DOMAIN m |->
        IF i >= HeaderLen /\ i < HeaderLen + k THEN bs[i - HeaderLen + 1] ELSE m[i]]

\* The region after SharedMemory.write of shared_memoryPythonSystemV.py:
\* the byte loop stops with IndexError at the first index >= self.size.
WriteCtypesMem(m, size, v) ==
    LET bs == JsonBytes(v)
    IN  StoreBytes(StoreLen(ZeroFill(m, size), Len(bs)), bs, Min(Len(bs), size - HeaderLen))

WriteCtypesOut(size, v) ==
    LET n == Len(JsonBytes(v))
    IN  IF n > size - HeaderLen
        THEN Raised("IndexError", "", size)
        ELSE Returned(NoneVal, "ok", HeaderLen + n)

\* The region after SharedMemory.write of py_ipc.py: sysv_ipc refuses a
\* write that does not fit (ValueError) after the length was stored.
WriteSysvMem(m, segsize, v) ==
    LET bs == JsonBytes(v)
    IN  IF Len(bs) > segsize - HeaderLen
        THEN StoreLen(m, Len(bs))
        ELSE StoreBytes(StoreLen(m, Len(bs)), bs, Len(bs))

WriteSysvOut(segsize, v) ==
    LET n == Len(JsonBytes(v))
    IN  IF n > segsize - HeaderLen
        THEN Raised("ValueError", "", HeaderLen)
        ELSE Returned(NoneVal, "ok", HeaderLen + n)


\* ------------------------------------------------------------- state
VARIABLES
    prog,       \* the program all processes run: "ctypes" | "sysv"
    segs,       \* the kernel's segment table, by segment id
    nsegs,      \* how many segment ids the kernel has handed out
    hnd,        \* the SharedMemory object of each process
    last,       \* the call that ended last: who, which, its argument, its Outcome
    committed,  \* the payload of the last write() that returned (NoneVal: none yet)
    mon,        \* the polling monitor of py_ipc.py (its main program)
    srv         \* the socket server of python_IPC.py and its connection

vars == <<prog, segs, nsegs, hnd, last, committed, mon, srv>>

\* A slot of the segment table that holds no segment.
NoSegment ==
    [live |-> FALSE, key |-> IpcPrivate, size |-> 0, mem |-> <<>>,
     nattch |-> 0, dest |-> FALSE]

\* A process that has not constructed its SharedMemory yet.
\* shmid   self.shmid (ctypes) / the id held by self.memory (sysv)
\* pend    the id shmget returned, while init() is between shmget and shmat
\* hasMem  self.memory is not None
\* att     what is mapped at the address self.memory refers to
\* pc      "absent" | "idle" | "got" | "w_len" | "w_data" | "dead"
\* ctor    init() runs inside __init__ (a raise discards the object)
\* wv, wi  the payload write() is storing and the next byte's index
\* leak    mappings of this process that no handle refers to any more
\* cleaned cleanup() has released this handle
NoHandle ==
    [size |-> 0, shmid |-> NoShmid, pend |-> NoShmid,
     hasMem |-> FALSE, att |-> NoSeg, pc |-> "absent", ctor |-> FALSE,
     wv |-> NoneVal, wi |-> 0, leak |-> <<>>, cleaned |-> FALSE]

NoCall == [h |-> 0, op |-> "none", arg |-> NoneVal, out |-> Returned(NoneVal, "", 0)]
Call(h, op, out) == [h |-> h, op |-> op, arg |-> NoneVal, out |-> out]
WriteCall(h, v, out) == [h |-> h, op |-> "write", arg |-> v, out |-> out]

\* The handle's buffer refers to a live mapping.
Mapped(r) == r.hasMem /\ r.att \in SegIds

\* ------------------------------------------------------------ kernel
\* The live segment a key names (0 when none): a segment marked for
\* removal has lost its key.
KeySeg(sg, key) ==
    IF \E s \in SegIds : sg[s].live /\ sg[s].key = key
    THEN CHOOSE s \in SegIds : sg[s].live /\ sg[s].key = key
    ELSE NoSeg

\* shmget(key, size, IPC_CREAT | 0o666): the id, or -1 (EINVAL) when the
\* segment exists and is smaller than size.  A new segment is zero-filled.
ShmgetId(sg, n, key, size) ==
    LET s == KeySeg(sg, key)
    IN  IF s # NoSeg
        THEN IF size > sg[s].size THEN ShmgetFailed ELSE s
        ELSE n + 1

ShmgetSegs(sg, n, key, size) ==
    IF KeySeg(sg, key) # NoSeg THEN sg
    ELSE [sg EXCEPT ![n + 1] =
            [live |-> TRUE, key |-> key, size |-> size,
             mem |-> [i \in 0..(size - 1) |-> 0], nattch |-> 0, dest |-> FALSE]]

\* shmat(shmid, NULL, 0) succeeds on every live segment, marked or not.
ShmatOk(sg, id) == id \in SegIds /\ sg[id].live

ShmatSegs(sg, id) ==
    IF ShmatOk(sg, id) THEN [sg EXCEPT ![id].nattch = @ + 1] ELSE sg

\* shmdt(addr): the last detach of a marked segment destroys it.
ShmdtOk(att) == att \in SegIds

ShmdtSegs(sg, att) ==
    IF ~ShmdtOk(att) THEN sg
    ELSE IF sg[att].nattch = 1 /\ sg[att].dest THEN [sg EXCEPT ![att] = NoSegment]
    ELSE [sg EXCEPT ![att].nattch = @ - 1]

\* shmctl(shmid, IPC_RMID, NULL): destroys an unattached segment, marks an
\* attached one (its key becomes IPC_PRIVATE); fails on a dead id.
RmidOk(sg, id) == id \in SegIds /\ sg[id].live

RmidSegs(sg, id) ==
    IF ~RmidOk(sg, id) THEN sg
    ELSE IF sg[id].nattch = 0 THEN [sg EXCEPT ![id] = NoSegment]
    ELSE [sg EXCEPT ![id].dest = TRUE, ![id].key = IpcPrivate]

\* The monitor before py_ipc.py is started.
\* pc      "off" | "poll" | "sleep" | "exited"
\* printed the payload of the last "Read from shared memory" line
\* why     what ended the loop: "interrupt" or the exception that left it
NoMonitor == [pc |-> "off", printed |-> NoneVal, why |-> ""]

\* The server before python_IPC.py is started, and its one connection.
\* pc     "off" | "accept" | "recv" | "exited"
\* link   the client's end of the connection: "none" | "open" | "closed"
\* inbox  the chunks the client has sent and recv() has not returned yet
\* got    the chunk the last recv() returned (a sequence of at most one)
\* sent   the replies conn.send() has delivered for that chunk
\* exc    the exception that left run()
NoServer ==
    [pc |-> "off", link |-> "none", inbox |-> <<>>, got |-> <<>>, sent |-> <<>>,
     exc |-> ""]

Init ==
    /\ mon = NoMonitor
    /\ srv = NoServer
    /\ prog \in {"ctypes", "sysv"}
    /\ segs = [s \in SegIds |-> NoSegment]
    /\ nsegs = 0
    /\ hnd = [h \in Handles |-> NoHandle]
    /\ last = NoCall
    /\ committed = NoneVal


\* Payloads the lifecycle specification writes.
LifePayloads == {1, 21}

RECURSIVE DetachAll(_, _)
\* The kernel detaches every mapping of a process that dies.
DetachAll(sg, atts) ==
    IF Len(atts) = 0 THEN sg ELSE DetachAll(ShmdtSegs(sg, Head(atts)), Tail(atts))

\* The mapping a handle's buffer referred to is left mapped when init()
\* replaces the buffer.
LeakOf(r) == IF Mapped(r) THEN Append(r.leak, r.att) ELSE r.leak

\* --------------------------------------------------------- init()
\* First half of init(): shmget.  r is the object as init() finds it.
\* ctypes stores the result in self.shmid before testing it and raises
\* OSError on -1; sysv_ipc raises ValueError (EINVAL), which the except
\* clause for ExistentialError does not catch.  A raise inside __init__
\* leaves the caller without the object.
GetStep(h, r) ==
    LET id == ShmgetId(segs, nsegs, SegKey, r.size)
        made == KeySeg(segs, SegKey) = NoSeg
    IN  /\ made => nsegs < MaxSegs
        /\ segs' = ShmgetSegs(segs, nsegs, SegKey, r.size)
        /\ nsegs' = IF made THEN nsegs + 1 ELSE nsegs
        /\ IF id = ShmgetFailed
           THEN /\ hnd' = [hnd EXCEPT ![h] =
                            IF r.ctor THEN NoHandle
                            ELSE IF prog = "ctypes" THEN [r EXCEPT !.shmid = ShmgetFailed]
                            ELSE r]
                /\ last' = Call(h, "init",
                                Raised(IF prog = "ctypes" THEN "OSError" ELSE "ValueError", "", 0))
           ELSE /\ hnd' = [hnd EXCEPT ![h] =
                            [r EXCEPT !.pend = id, !.pc = "got",
                                      !.shmid = IF prog = "ctypes" THEN id ELSE @]]
                /\ last' = last
        /\ UNCHANGED <<mon, srv, prog, committed>>

\* SharedMemory(key, size): __init__ sets the attributes and calls init().
New(h, size) ==
    /\ hnd[h].pc = "absent"
    /\ GetStep(h, [NoHandle EXCEPT !.size = size, !.pc = "idle", !.ctor = TRUE])

\* init() called again on an object that exists.
ReInit(h) ==
    /\ hnd[h].pc = "idle"
    /\ GetStep(h, hnd[h])

\* Second half of the ctypes init(): shmat.  restype is c_void_p, so a
\* failing shmat yields 2^64 - 1, which 'addr == -1' never equals: the
\* buffer is built on that address and init() returns.
AttachCtypes(h) ==
    LET r == hnd[h]
        ok == ShmatOk(segs, r.pend)
    IN  /\ r.pc = "got" /\ prog = "ctypes"
        /\ segs' = ShmatSegs(segs, r.pend)
        /\ hnd' = [hnd EXCEPT ![h] =
                    [r EXCEPT !.hasMem = TRUE, !.att = IF ok THEN r.pend ELSE BadAddr,
                              !.leak = LeakOf(r), !.pend = NoShmid, !.pc = "idle",
                              !.ctor = FALSE]]
        /\ last' = Call(h, "init", Returned(NoneVal, "ok", 0))
        /\ UNCHANGED <<mon, srv, prog, nsegs, committed>>

\* Second half of the sysv_ipc constructor: shmat.  A failure raises and
\* self.memory keeps what it had.  On success self.memory is the new
\* object; the object it replaces is dropped, and whether dropping it
\* detaches its mapping is the library's business: both are allowed.
AttachSysv(h) ==
    LET r == hnd[h]
        ok == ShmatOk(segs, r.pend)
    IN  /\ r.pc = "got" /\ prog = "sysv"
        /\ IF ok
           THEN \E drop \in BOOLEAN :
                /\ segs' = IF drop /\ Mapped(r)
                           THEN ShmdtSegs(ShmatSegs(segs, r.pend), r.att)
                           ELSE ShmatSegs(segs, r.pend)
                /\ hnd' = [hnd EXCEPT ![h] =
                            [r EXCEPT !.hasMem = TRUE, !.att = r.pend, !.shmid = r.pend,
                                      !.leak = IF drop THEN r.leak ELSE LeakOf(r),
                                      !.pend = NoShmid, !.pc = "idle", !.ctor = FALSE]]
                /\ last' = Call(h, "init", Returned(NoneVal, "ok", 0))
           ELSE /\ segs' = segs
                /\ hnd' = [hnd EXCEPT ![h] =
                            IF r.ctor THEN NoHandle
                            ELSE [r EXCEPT !.pend = NoShmid, !.pc = "idle"]]
                /\ last' = Call(h, "init", Raised("ValueError", "", 0))
        /\ UNCHANGED <<mon, srv, prog, nsegs, committed>>


\* ------------------------------------------------- read() and write()
\* What read() gives on handle record r.  The ctypes read() catches the
\* TypeError of a None buffer; a buffer on an unmapped address faults.
\* py_ipc's read() raises AttributeError on None and sysv_ipc's
\* NotAttachedError on a detached object.
ReadOut(r, sg) ==
    IF prog = "ctypes"
    THEN IF ~r.hasMem THEN Returned(NoneVal, "detached", 0)
         ELSE IF r.att \notin SegIds THEN Crashed
         ELSE ReadCtypes(sg[r.att].mem, r.size)
    ELSE IF ~r.hasMem THEN Raised("AttributeError", "detached", 0)
         ELSE IF r.att \notin SegIds THEN Raised("NotAttachedError", "detached", 0)
         ELSE ReadSysv(sg[r.att].mem, sg[r.att].size)

\* What write(v) gives on handle record r.
WriteOut(r, sg, v) ==
    IF prog = "ctypes"
    THEN IF ~r.hasMem THEN Raised("TypeError", "detached", 0)
         ELSE IF r.att \notin SegIds THEN Crashed
         ELSE WriteCtypesOut(r.size, v)
    ELSE IF ~r.hasMem THEN Raised("AttributeError", "detached", 0)
         ELSE IF r.att \notin SegIds THEN Raised("NotAttachedError", "detached", 0)
         ELSE WriteSysvOut(sg[r.att].size, v)

\* The segment table after write(v) on handle record r.
WriteSegs(r, sg, v) ==
    IF ~Mapped(r) THEN sg
    ELSE [sg EXCEPT ![r.att].mem =
            IF prog = "ctypes" THEN WriteCtypesMem(@, r.size, v)
            ELSE WriteSysvMem(@, sg[r.att].size, v)]

\* The process of handle h dies: the kernel detaches all its mappings.
Dead(r) ==
    [r EXCEPT !.pc = "dead", !.att = NoSeg, !.leak = <<>>, !.hasMem = FALSE]

DeadSegs(r, sg) == DetachAll(sg, LeakOf(r))

\* read(), as one step.
Read(h) ==
    LET r == hnd[h]
        out == ReadOut(r, segs)
    IN  /\ r.pc = "idle"
        /\ last' = Call(h, "read", out)
        /\ IF out.kind = "crash"
           THEN hnd' = [hnd EXCEPT ![h] = Dead(r)] /\ segs' = DeadSegs(r, segs)
           ELSE UNCHANGED <<hnd, segs>>
        /\ UNCHANGED <<mon, srv, prog, nsegs, committed>>

\* write(v), as one step.
Write(h, v) ==
    LET r == hnd[h]
        out == WriteOut(r, segs, v)
    IN  /\ r.pc = "idle"
        /\ last' = WriteCall(h, v, out)
        /\ IF out.kind = "crash"
           THEN hnd' = [hnd EXCEPT ![h] = Dead(r)] /\ segs' = DeadSegs(r, segs)
           ELSE hnd' = hnd /\ segs' = WriteSegs(r, segs, v)
        /\ committed' = IF out.kind = "return" THEN v ELSE committed
        /\ UNCHANGED <<mon, srv, prog, nsegs>>

\* ------------------------------------------------------- cleanup()
\* A cleanup() that clears the region before it lets go of it.
CleanupCtypesWipe(h) ==
    LET r == hnd[h]
        wiped == IF Mapped(r) THEN [segs EXCEPT ![r.att].mem = ZeroFill(@, r.size)] ELSE segs
    IN  /\ r.pc = "idle" /\ prog = "ctypes"
        /\ IF r.hasMem
           THEN /\ segs' = RmidSegs(ShmdtSegs(wiped, r.att), r.shmid)
                /\ hnd' = [hnd EXCEPT ![h] =
                            [r EXCEPT !.hasMem = FALSE, !.att = NoSeg, !.shmid = NoShmid,
                                      !.cleaned = TRUE]]
                /\ last' = Call(h, "cleanup", Outcome("return", NoneVal, "", "", 0, 2, FALSE))
           ELSE /\ UNCHANGED <<segs, hnd>>
                /\ last' = Call(h, "cleanup", Returned(NoneVal, "", 0))
        /\ UNCHANGED <<mon, srv, prog, nsegs, committed>>

\* cleanup() of shared_memoryPythonSystemV.py: failures of shmdt and
\* shmctl are printed; the finally clause clears memory and shmid.
CleanupCtypes(h) ==
    LET r == hnd[h]
    IN  /\ r.pc = "idle" /\ prog = "ctypes"
        /\ IF r.hasMem
           THEN /\ segs' = RmidSegs(ShmdtSegs(segs, r.att), r.shmid)
                /\ hnd' = [hnd EXCEPT ![h] =
                            [r EXCEPT !.hasMem = FALSE, !.att = NoSeg, !.shmid = NoShmid,
                                      !.cleaned = TRUE]]
                /\ last' = Call(h, "cleanup",
                                Outcome("return", NoneVal, "", "", 0, 2,
                                        ~ShmdtOk(r.att) \/ ~RmidOk(ShmdtSegs(segs, r.att), r.shmid)))
           ELSE /\ UNCHANGED <<segs, hnd>>
                /\ last' = Call(h, "cleanup", Returned(NoneVal, "", 0))
        /\ UNCHANGED <<mon, srv, prog, nsegs, committed>>

\* cleanup() of py_ipc.py: detach() is outside the try, remove() inside;
\* self.memory is never reset, so a second cleanup() detaches again, and
\* sysv_ipc raises NotAttachedError for the failing shmdt.
CleanupSysv(h) ==
    LET r == hnd[h]
    IN  /\ r.pc = "idle" /\ prog = "sysv"
        /\ IF ~r.hasMem
           THEN /\ UNCHANGED <<segs, hnd>>
                /\ last' = Call(h, "cleanup", Returned(NoneVal, "", 0))
           ELSE IF ShmdtOk(r.att)
           THEN /\ segs' = RmidSegs(ShmdtSegs(segs, r.att), r.shmid)
                /\ hnd' = [hnd EXCEPT ![h] = [r EXCEPT !.att = NoSeg, !.cleaned = TRUE]]
                /\ last' = Call(h, "cleanup",
                                Outcome("return", NoneVal, "", "", 0, 2,
                                        ~RmidOk(ShmdtSegs(segs, r.att), r.shmid)))
           ELSE /\ UNCHANGED <<segs, hnd>>
                /\ last' = Call(h, "cleanup",
                                Outcome("raise", NoneVal, "NotAttachedError", "", 0, 1, TRUE))
        /\ UNCHANGED <<mon, srv, prog, nsegs, committed>>

\* ------------------------------------------------- the specification
\* Lifecycle of the handles of three processes that run the same program
\* with the same key and size; write() and read() are single steps, and
\* init() is called again only on a handle that holds no mapping.
Next ==
    \E h \in Handles :
        \/ New(h, SmallSize)
        \/ ~Mapped(hnd[h]) /\ ReInit(h)
        \/ AttachCtypes(h)
        \/ AttachSysv(h)
        \/ Read(h)
        \/ \E v \in LifePayloads : Write(h, v)
        \/ CleanupCtypes(h)
        \/ CleanupSysv(h)

Spec == Init /\ [][Next]_vars


\* --------------------------------------------- write(), step by step
\* write() of shared_memoryPythonSystemV.py on a mapped handle, up to and
\* including the memset.  (json.dumps and encode cannot fail on an int.)
WriteStart(h, v) ==
    LET r == hnd[h]
    IN  /\ r.pc = "idle" /\ prog = "ctypes" /\ Mapped(r)
        /\ segs' = [segs EXCEPT ![r.att].mem = ZeroFill(@, r.size)]
        /\ hnd' = [hnd EXCEPT ![h] = [r EXCEPT !.pc = "w_len", !.wv = v, !.wi = 0]]
        /\ UNCHANGED <<mon, srv, prog, nsegs, last, committed>>

\* struct.pack_into('=I', self.memory, 0, len(json_bytes))
WriteLen(h) ==
    LET r == hnd[h]
    IN  /\ r.pc = "w_len"
        /\ segs' = [segs EXCEPT ![r.att].mem = StoreLen(@, Len(JsonBytes(r.wv)))]
        /\ hnd' = [hnd EXCEPT ![h] = [r EXCEPT !.pc = "w_data"]]
        /\ UNCHANGED <<mon, srv, prog, nsegs, last, committed>>

\* One round of the byte loop: the store raises IndexError past the end
\* of the buffer; after the last byte write() returns.
WriteData(h) ==
    LET r == hnd[h]
        bs == JsonBytes(r.wv)
        idle == [r EXCEPT !.pc = "idle", !.wv = NoneVal, !.wi = 0]
    IN  /\ r.pc = "w_data"
        /\ IF HeaderLen + r.wi >= r.size
           THEN /\ segs' = segs
                /\ hnd' = [hnd EXCEPT ![h] = idle]
                /\ last' = WriteCall(h, r.wv, Raised("IndexError", "", r.size))
                /\ committed' = committed
           ELSE /\ segs' = [segs EXCEPT ![r.att].mem = StoreByte(@, r.wi, bs[r.wi + 1])]
                /\ IF r.wi + 1 = Len(bs)
                   THEN /\ hnd' = [hnd EXCEPT ![h] = idle]
                        /\ last' = WriteCall(h, r.wv, Returned(NoneVal, "ok", HeaderLen + Len(bs)))
                        /\ committed' = r.wv
                   ELSE /\ hnd' = [hnd EXCEPT ![h] = [r EXCEPT !.wi = r.wi + 1]]
                        /\ UNCHANGED <<last, committed>>
        /\ UNCHANGED <<mon, srv, prog, nsegs>>

\* ------------------------------------ specification of the torn write
\* The writing and the reading process of the torn-write specification.
Writer == 1
Reader == 2

RECURSIVE DigitStrings(_)
\* The numbers of k digits, each digit 1 or 2.
DigitStrings(k) ==
    IF k = 1 THEN {1, 2}
    ELSE {10 * p + d : p \in DigitStrings(k - 1), d \in {1, 2}}

\* Every payload of up to MaxData + 1 bytes: the longest do not fit.
TornPayloads == UNION {DigitStrings(k) : k \in 1..(MaxData + 1)}

\* A handle of size bytes attached to segment s.
AttachedHandle(s, size) ==
    [NoHandle EXCEPT !.size = size, !.shmid = s, !.hasMem = TRUE, !.att = s, !.pc = "idle"]

\* A live segment under SegKey with n processes attached.
LiveSegment(size, mem, n) ==
    [live |-> TRUE, key |-> SegKey, size |-> size, mem |-> mem, nattch |-> n,
     dest |-> FALSE]

\* Two ctypes processes have constructed their handles on a new segment.
InitTorn ==
    /\ mon = NoMonitor
    /\ srv = NoServer
    /\ prog = "ctypes"
    /\ segs = [s \in SegIds |->
                IF s = 1 THEN LiveSegment(SmallSize, [i \in 0..(SmallSize - 1) |-> 0], 2)
                ELSE NoSegment]
    /\ nsegs = 1
    /\ hnd = [h \in Handles |->
                IF h \in {Writer, Reader} THEN AttachedHandle(1, SmallSize) ELSE NoHandle]
    /\ last = NoCall
    /\ committed = NoneVal

\* The writer runs write() step by step; the reader runs read() as one
\* step between any two of them.
NextTorn ==
    \/ \E v \in TornPayloads : WriteStart(Writer, v)
    \/ WriteLen(Writer)
    \/ WriteData(Writer)
    \/ Read(Reader)

SpecTorn == InitTorn /\ [][NextTorn]_vars

\* ------------------------------------------ specification of read()
\* Length prefixes of a segment a peer has written: little-endian values
\* 0..4, 255, and ones with the high bytes set (above 2^31: negative as
\* a signed int).
PrefixBytes ==
    {[i \in 0..3 |-> IF i = 0 THEN b0 ELSE IF i = 3 THEN b3 ELSE b12] :
        b0 \in {0, 1, 2, 3, 4, 255}, b12 \in {0, 255}, b3 \in {0, 127, 255}}

\* Every content of a segment of size bytes over PrefixBytes and DataBytes.
Contents(size) ==
    {[i \in 0..(size - 1) |-> IF i < HeaderLen THEN p[i] ELSE d[i]] :
        p \in PrefixBytes, d \in [HeaderLen..(size - 1) -> DataBytes]}

\* One process is attached to a segment that holds anything at all.
InitRead ==
    /\ mon = NoMonitor
    /\ srv = NoServer
    /\ prog \in {"ctypes", "sysv"}
    /\ \E size \in Sizes, hsize \in Sizes :
        /\ hsize <= size
        /\ \E mem \in Contents(size) :
              segs = [s \in SegIds |-> IF s = 1 THEN LiveSegment(size, mem, 1) ELSE NoSegment]
        /\ hnd = [h \in Handles |-> IF h = Reader THEN AttachedHandle(1, hsize) ELSE NoHandle]
    /\ nsegs = 1
    /\ last = NoCall
    /\ committed = NoneVal

NextRead == Read(Reader)

SpecRead == InitRead /\ [][NextRead]_vars

\* ------------------------------------ the polling monitor of py_ipc.py
\* The finally clause of the main program: shared_mem.cleanup(), whose own
\* exception (none here: the handle is attached) would replace the first.
MonitorExit(h, why) ==
    LET r == hnd[h]
    IN  /\ segs' = RmidSegs(ShmdtSegs(segs, r.att), r.shmid)
        /\ hnd' = [hnd EXCEPT ![h] = [r EXCEPT !.att = NoSeg, !.cleaned = TRUE]]
        /\ mon' = [mon EXCEPT !.pc = "exited", !.why = why]

\* One round of 'while True' up to the sleep: read(), then the print or
\* the 'except json.JSONDecodeError: pass'.  Any other exception leaves
\* the loop; 'except KeyboardInterrupt' does not catch it and the finally
\* clause runs.
Poll(h) ==
    LET out == ReadOut(hnd[h], segs)
    IN  /\ mon.pc = "poll"
        /\ last' = Call(h, "read", out)
        /\ IF out.kind = "return"
           THEN /\ mon' = [mon EXCEPT !.pc = "sleep", !.printed = out.val]
                /\ UNCHANGED <<segs, hnd>>
           ELSE IF out.exc = "JSONDecodeError"
           THEN /\ mon' = [mon EXCEPT !.pc = "sleep"]
                /\ UNCHANGED <<segs, hnd>>
           ELSE MonitorExit(h, out.exc)
        /\ UNCHANGED <<srv, prog, nsegs, committed>>

\* time.sleep(0.1) returns.
Sleep ==
    /\ mon.pc = "sleep"
    /\ mon' = [mon EXCEPT !.pc = "poll"]
    /\ UNCHANGED <<srv, prog, segs, nsegs, hnd, last, committed>>

\* Ctrl-C: KeyboardInterrupt is raised in the read or in the sleep, the
\* except clause prints "Stopping..." and the finally clause runs.
Interrupt(h) ==
    /\ mon.pc \in {"poll", "sleep"}
    /\ MonitorExit(h, "interrupt")
    /\ UNCHANGED <<srv, prog, nsegs, last, committed>>

\* The peer process (the Node.js side) stores anything into the segment.
PeerStore(h) ==
    /\ mon.pc \in {"poll", "sleep"}
    /\ \E mem \in Contents(segs[hnd[h].att].size) :
          segs' = [segs EXCEPT ![hnd[h].att].mem = mem]
    /\ UNCHANGED <<mon, srv, prog, nsegs, hnd, last, committed>>

\* py_ipc.py has constructed its SharedMemory on a segment the peer has
\* attached as well, and enters the loop.
InitPoll ==
    /\ mon = [NoMonitor EXCEPT !.pc = "poll"]
    /\ srv = NoServer
    /\ prog = "sysv"
    /\ \E mem \in Contents(SmallSize) :
          segs = [s \in SegIds |-> IF s = 1 THEN LiveSegment(SmallSize, mem, 2) ELSE NoSegment]
    /\ hnd = [h \in Handles |-> IF h = Reader THEN AttachedHandle(1, SmallSize) ELSE NoHandle]
    /\ nsegs = 1
    /\ last = NoCall
    /\ committed = NoneVal

NextPoll ==
    \/ Poll(Reader)
    \/ Sleep
    \/ Interrupt(Reader)
    \/ PeerStore(Reader)

SpecPoll == InitPoll /\ [][NextPoll]_vars

\* --------------------------------- write() of py_ipc.py, step by step
\* write() of py_ipc.py on an attached handle up to its first store:
\* self.memory.write(length_bytes).  Nothing is cleared before it.
WriteStartSysv(h, v) ==
    LET r == hnd[h]
    IN  /\ r.pc = "idle" /\ prog = "sysv" /\ Mapped(r)
        /\ segs' = [segs EXCEPT ![r.att].mem = StoreLen(@, Len(JsonBytes(v)))]
        /\ hnd' = [hnd EXCEPT ![h] = [r EXCEPT !.pc = "w_data", !.wv = v, !.wi = 0]]
        /\ UNCHANGED <<mon, srv, prog, nsegs, last, committed>>

\* self.memory.write(json_bytes, offset=4): sysv_ipc raises ValueError
\* when the bytes do not fit, else copies them, one byte a step; after
\* the last byte write() returns.
WriteDataSysv(h) ==
    LET r == hnd[h]
        bs == JsonBytes(r.wv)
        idle == [r EXCEPT !.pc = "idle", !.wv = NoneVal, !.wi = 0]
    IN  /\ r.pc = "w_data" /\ prog = "sysv"
        /\ IF Len(bs) > segs[r.att].size - HeaderLen
           THEN /\ segs' = segs
                /\ hnd' = [hnd EXCEPT ![h] = idle]
                /\ last' = WriteCall(h, r.wv, Raised("ValueError", "", HeaderLen))
                /\ committed' = committed
           ELSE /\ segs' = [segs EXCEPT ![r.att].mem = StoreByte(@, r.wi, bs[r.wi + 1])]
                /\ IF r.wi + 1 = Len(bs)
                   THEN /\ hnd' = [hnd EXCEPT ![h] = idle]
                        /\ last' = WriteCall(h, r.wv, Returned(NoneVal, "ok", HeaderLen + Len(bs)))
                        /\ committed' = r.wv
                   ELSE /\ hnd' = [hnd EXCEPT ![h] = [r EXCEPT !.wi = r.wi + 1]]
                        /\ UNCHANGED <<last, committed>>
        /\ UNCHANGED <<mon, srv, prog, nsegs>>

\* Two py_ipc processes have constructed their handles on a new segment.
InitTornSysv ==
    /\ mon = NoMonitor
    /\ srv = NoServer
    /\ prog = "sysv"
    /\ segs = [s \in SegIds |->
                IF s = 1 THEN LiveSegment(SmallSize, [i \in 0..(SmallSize - 1) |-> 0], 2)
                ELSE NoSegment]
    /\ nsegs = 1
    /\ hnd = [h \in Handles |->
                IF h \in {Writer, Reader} THEN AttachedHandle(1, SmallSize) ELSE NoHandle]
    /\ last = NoCall
    /\ committed = NoneVal

\* The writer runs write() store by store; the reader runs read() as one
\* step between any two of them.
NextTornSysv ==
    \/ \E v \in TornPayloads : WriteStartSysv(Writer, v)
    \/ WriteDataSysv(Writer)
    \/ Read(Reader)

SpecTornSysv == InitTornSysv /\ [][NextTornSysv]_vars

\* ------------------------------- specification of acquire with sizes
\* Processes construct their handles with the same key and either size,
\* and release them.
NextAcquire ==
    \E h \in Handles :
        \/ \E size \in Sizes : New(h, size)
        \/ AttachCtypes(h)
        \/ AttachSysv(h)
        \/ CleanupCtypes(h)
        \/ CleanupSysv(h)

SpecAcquire == Init /\ [][NextAcquire]_vars

\* ------------------------------------ the socket server (python_IPC.py)
\* Chunks in flight from the client to the server at one time.
MaxInbox == 2

\* Values of the data field of a request.
DataValues == {-3, 0, 5}

\* What recv(1024) can return, by what json.loads and message["data"]
\* make of it:
\* text  data.decode() succeeds and json.loads accepts the text (one
\*       request cut in two chunks, or two in one chunk, is not a text)
\* obj   the text is an object (a list, a number or a string is not)
\* has   the object has the key "data"
\* d     the number under "data"
Chunk(text, obj, has, d) == [text |-> text, obj |-> obj, has |-> has, d |-> d]

Request(d) == Chunk(TRUE, TRUE, TRUE, d)

Chunks ==
    {Request(d) : d \in DataValues}
        \cup {Chunk(TRUE, TRUE, FALSE, 0), Chunk(TRUE, FALSE, FALSE, 0),
              Chunk(FALSE, FALSE, FALSE, 0)}

\* {"status": "success", "data": data}
Success(data) == [status |-> "success", data |-> data, message |-> ""]

\* {"status": "error", "message": str(e)}
Error(e) == [status |-> "error", data |-> 0, message |-> e]

\* A reply that hands the data back as it came.
ReplyToEcho(c) ==
    IF ~c.text THEN Error("JSONDecodeError")
    ELSE IF ~c.obj THEN Error("TypeError")
    ELSE IF ~c.has THEN Error("KeyError")
    ELSE Success(c.d)

\* What the try block builds for a chunk: json.loads raises on a chunk
\* that is no JSON text, message["data"] raises TypeError on a value that
\* is no object and KeyError on an object without the key.
ReplyTo(c) ==
    IF ~c.text THEN Error("JSONDecodeError")
    ELSE IF ~c.obj THEN Error("TypeError")
    ELSE IF ~c.has THEN Error("KeyError")
    ELSE Success(c.d * 2)

\* The program has bound its socket and listens.
InitServer ==
    /\ srv = [NoServer EXCEPT !.pc = "accept"]
    /\ mon = NoMonitor
    /\ prog = "none"
    /\ segs = [s \in SegIds |-> NoSegment]
    /\ nsegs = 0
    /\ hnd = [h \in Handles |-> NoHandle]
    /\ last = NoCall
    /\ committed = NoneVal

\* A client connects: the listening socket queues the connection.
ClientConnect ==
    /\ srv.pc \in {"accept", "recv"} /\ srv.link = "none"
    /\ srv' = [srv EXCEPT !.link = "open", !.inbox = <<>>]
    /\ UNCHANGED <<mon, prog, segs, nsegs, hnd, last, committed>>

\* The client sends a chunk.
ClientSend(c) ==
    /\ srv.link = "open" /\ Len(srv.inbox) < MaxInbox
    /\ srv' = [srv EXCEPT !.inbox = Append(@, c)]
    /\ UNCHANGED <<mon, prog, segs, nsegs, hnd, last, committed>>

\* The client closes its socket.
ClientClose ==
    /\ srv.link = "open"
    /\ srv' = [srv EXCEPT !.link = "closed"]
    /\ UNCHANGED <<mon, prog, segs, nsegs, hnd, last, committed>>

\* conn, addr = server.accept()
Accept ==
    /\ srv.pc = "accept" /\ srv.link # "none"
    /\ srv' = [srv EXCEPT !.pc = "recv", !.got = <<>>, !.sent = <<>>]
    /\ UNCHANGED <<mon, prog, segs, nsegs, hnd, last, committed>>

\* The connection after 'with conn' is left: the server's end is closed
\* and what the client had sent is dropped.
Hangup(s) == [s EXCEPT !.link = "none", !.inbox = <<>>]

\* One round of the inner loop (lines 24-45).  recv() blocks while the
\* client is connected and has sent nothing, and returns b'' once the
\* client has closed and everything was received.  conn.send() to a client
\* that has closed raises BrokenPipeError: in the try block it is caught
\* by 'except Exception', whose own conn.send() raises it again, and that
\* one leaves run().
Recv ==
    LET gone == srv.link = "closed"
    IN  /\ srv.pc = "recv"
        /\ IF srv.inbox = <<>>
           THEN /\ gone
                /\ srv' = Hangup([srv EXCEPT !.pc = "accept", !.got = <<>>, !.sent = <<>>])
           ELSE LET c == Head(srv.inbox)
                    rep == ReplyTo(c)
                    rcvd == [srv EXCEPT !.inbox = Tail(@), !.got = <<c>>, !.sent = <<>>]
                IN  IF gone
                    THEN srv' = Hangup([rcvd EXCEPT !.pc = "exited", !.exc = "BrokenPipeError"])
                    ELSE IF rep.status = "success"
                    THEN srv' = [rcvd EXCEPT !.sent = <<rep>>]
                    ELSE srv' = Hangup([rcvd EXCEPT !.sent = <<rep>>, !.pc = "accept"])
        /\ UNCHANGED <<mon, prog, segs, nsegs, hnd, last, committed>>

NextServer ==
    \/ ClientConnect
    \/ \E c \in Chunks : ClientSend(c)
    \/ ClientClose
    \/ Accept
    \/ Recv

SpecServer == InitServer /\ [][NextServer]_vars

\* ---------------------------------------- specification of write()
\* Two processes hold handles on one new segment; the handle of the ctypes
\* program may be smaller than the segment.
InitWrite ==
    /\ mon = NoMonitor
    /\ srv = NoServer
    /\ prog \in {"ctypes", "sysv"}
    /\ \E size \in Sizes, wsize \in Sizes, rsize \in Sizes :
        /\ wsize <= size /\ rsize <= size
        /\ segs = [s \in SegIds |->
                    IF s = 1 THEN LiveSegment(size, [i \in 0..(size - 1) |-> 0], 2)
                    ELSE NoSegment]
        /\ hnd = [h \in Handles |->
                    IF h = Writer THEN AttachedHandle(1, wsize)
                    ELSE IF h = Reader THEN AttachedHandle(1, rsize)
                    ELSE NoHandle]
    /\ nsegs = 1
    /\ last = NoCall
    /\ committed = NoneVal

\* Either process writes any payload, those that do not fit included, or
\* reads.
NextWrite ==
    \E h \in {Writer, Reader} :
        \/ \E v \in TornPayloads : Write(h, v)
        \/ Read(h)

SpecWrite == InitWrite /\ [][NextWrite]_vars

\* The capacity write() has for a frame: self.size in the ctypes program,
\* the segment's size in py_ipc.py.
Capacity(r) == IF prog = "ctypes" THEN r.size ELSE segs[r.att].size

\* ------------------------------ specification of init() called again
\* Mappings a process may hold that none of its handles refers to.
MaxLeak == 2

\* Two processes construct their handles, call init() again at any time,
\* on an attached handle as well, and release them.
NextReInit ==
    \E h \in {Writer, Reader} :
        \/ New(h, SmallSize)
        \/ Len(hnd[h].leak) < MaxLeak /\ ReInit(h)
        \/ AttachCtypes(h)
        \/ AttachSysv(h)
        \/ Read(h)
        \/ CleanupCtypes(h)
        \/ CleanupSysv(h)

SpecReInit == Init /\ [][NextReInit]_vars

\* ------------------------------------------------------------ claims
\* C1: a read() of the ctypes program that runs between two steps of a
\* write() returns (it does not raise), and what it returns is None (no
\* data, or a decode failure), the payload of the last write() that
\* returned, or the payload being written.
C1_TornReadIsBenign ==
    (last.op = "read" /\ last.h = Reader) =>
        /\ last.out.kind = "return"
        /\ last.out.val \in
              {NoneVal, committed}
                \cup (IF hnd[Writer].pc # "idle" THEN {hnd[Writer].wv} ELSE {})

\* A read() met a half-written frame of a write() that follows a completed
\* one, and gave None for a decode failure.
C1_Witness ==
    /\ last.op = "read" /\ last.h = Reader
    /\ last.out.cause = "decode" /\ last.out.val = NoneVal
    /\ committed # NoneVal
    /\ hnd[Writer].pc = "w_data" /\ hnd[Writer].wi >= 1

\* C2: read() of the ctypes program, whatever the segment holds: with a
\* length prefix L that is zero or above size - 4 it returns None having
\* touched the prefix only; with L in range it touches bytes below 4 + L
\* only; it never touches a byte at index size or above.
C2_ReadBounds ==
    (prog = "ctypes" /\ last.op = "read") =>
        LET r == hnd[last.h]
            L == UnpackU32(segs[r.att].mem)
        IN  /\ last.out.kind = "return"
            /\ last.out.hi <= r.size
            /\ (L = 0 \/ L > r.size - HeaderLen) =>
                  /\ last.out.val = NoneVal
                  /\ last.out.cause = "idle"
                  /\ last.out.hi = HeaderLen
            /\ (L >= 1 /\ L <= r.size - HeaderLen) => last.out.hi = HeaderLen + L

\* read() gave None for a prefix above size - 4 that is followed by bytes
\* that would parse.
C2_Witness ==
    /\ prog = "ctypes" /\ last.op = "read"
    /\ UnpackU32(segs[hnd[last.h].att].mem) > hnd[last.h].size - HeaderLen
    /\ segs[hnd[last.h].att].mem[HeaderLen] = 49
    /\ segs[hnd[last.h].att].mem[HeaderLen + 1] = 50
    /\ last.out.val = NoneVal /\ last.out.hi = HeaderLen

\* What the caller of a call sees of its outcome.
Seen(out) == [kind |-> out.kind, val |-> out.val, exc |-> out.exc]

\* read() of handle record r over a segment of zeros.
ZeroRead(r) ==
    LET zeros == [i \in 0..(segs[r.att].size - 1) |-> 0]
    IN  IF prog = "ctypes" THEN ReadCtypes(zeros, r.size)
        ELSE ReadSysv(zeros, segs[r.att].size)

\* C5: read() of an idle segment (prefix zero or out of range) is not
\* reported as an error, and read() of a frame that fails to decode or
\* parse gives the caller something else than read() of an idle segment.
C5_NoDataDistinct ==
    (last.op = "read") =>
        /\ last.out.cause = "idle" => last.out.kind = "return"
        /\ last.out.cause = "decode" => Seen(last.out) # Seen(ZeroRead(hnd[last.h]))

\* cleanup(), of either program.
Cleanup(h) == CleanupCtypes(h) \/ CleanupSysv(h)

\* C3: after write(v) returns, with no write since, read() on a handle with
\* the same key and size that holds a mapping returns v (neither handle
\* was ever released).
C3_RoundTripAcrossHandles ==
    (last.op = "write" /\ last.out.kind = "return") =>
        \A r \in Handles :
            (/\ hnd[r].pc = "idle" /\ Mapped(hnd[r]) /\ hnd[r].size = hnd[last.h].size
             /\ ~hnd[r].cleaned /\ ~hnd[last.h].cleaned) =>
                /\ ReadOut(hnd[r], segs).kind = "return"
                /\ ReadOut(hnd[r], segs).val = last.arg

\* C4: two handles acquired with the same key (each constructed once and
\* never released) are attached to the same segment, in every reachable
\* state.
C4_SameKeySameSegment ==
    \A a, b \in Handles :
        (/\ Mapped(hnd[a]) /\ ~hnd[a].cleaned
         /\ Mapped(hnd[b]) /\ ~hnd[b].cleaned) => hnd[a].att = hnd[b].att

\* C6: when P1 runs cleanup() while P2 has the same segment attached, the
\* cleanup returns, P2's handle and the segment's bytes are untouched, the
\* segment stays alive, and P2's read() gives what it gave before.
C6_ReleaseUnderSurvivor ==
    [][\A p1, p2 \in Handles :
        (/\ p1 # p2
         /\ Mapped(hnd[p1]) /\ Mapped(hnd[p2]) /\ hnd[p1].att = hnd[p2].att
         /\ Cleanup(p1))
        => /\ last'.out.kind = "return"
           /\ hnd'[p2] = hnd[p2]
           /\ segs'[hnd[p2].att].live
           /\ segs'[hnd[p2].att].mem = segs[hnd[p2].att].mem
           /\ ReadOut(hnd'[p2], segs') = ReadOut(hnd[p2], segs)]_vars

\* A cleanup() has just marked for removal the segment another process
\* still has attached, and that process reads the committed payload.
C6_Witness ==
    /\ last.op = "cleanup" /\ last.out.kind = "return" /\ last.out.sys = 2
    /\ ~last.out.osfail
    /\ committed # NoneVal
    /\ \E p2 \in Handles \ {last.h} :
        /\ Mapped(hnd[p2]) /\ segs[hnd[p2].att].dest
        /\ hnd[p2].pc = "idle"
        /\ ReadOut(hnd[p2], segs).val = committed

\* C7: cleanup() on a released handle makes no shmdt / shmctl call, changes
\* nothing and raises nothing.
C7_ReleaseIdempotent ==
    [][\A h \in Handles :
        (hnd[h].cleaned /\ ~Mapped(hnd[h]) /\ Cleanup(h))
        => /\ last'.out.kind = "return"
           /\ last'.out.sys = 0
           /\ hnd' = hnd /\ segs' = segs]_vars

\* C8: a cleanup() during which shmdt or shmctl fails returns normally and
\* leaves the handle without a mapping.
C8_ReleaseNeverRaises ==
    (last.op = "cleanup" /\ last.out.osfail) =>
        /\ last.out.kind = "return"
        /\ ~Mapped(hnd[last.h])

\* The two states C9 allows a ctypes handle to be in.
FullyAttached(r) == r.shmid \in SegIds /\ r.hasMem /\ r.att = r.shmid
FullyDetached(r) == r.shmid = NoShmid /\ ~r.hasMem /\ r.att = NoSeg

\* C9: after init() or cleanup() a ctypes handle is fully attached or fully
\* detached.
C9_AttachedOrDetached ==
    (prog = "ctypes" /\ last.op \in {"init", "cleanup"} /\ hnd[last.h].pc = "idle") =>
        FullyAttached(hnd[last.h]) \/ FullyDetached(hnd[last.h])

\* C10: a handle that has run cleanup() never holds a mapping again.
C10_DetachedIsTerminal ==
    \A h \in Handles : hnd[h].cleaned => ~Mapped(hnd[h])

\* C11: the monitor of py_ipc.py leaves its loop on an interrupt only:
\* whatever the segment holds, no read() outcome ends it.
C11_MonitorRunsOn ==
    mon.pc = "exited" => mon.why = "interrupt"

\* C12: a read() of py_ipc.py that runs between the stores of a write()
\* and returns a value returns the payload of the last write() that
\* returned or the payload being written; anything else it observes it
\* raises.
C12_TornReadSysv ==
    (prog = "sysv" /\ last.op = "read" /\ last.h = Reader /\ last.out.kind = "return") =>
        last.out.val \in
            {committed} \cup (IF hnd[Writer].pc # "idle" THEN {hnd[Writer].wv} ELSE {})

\* C13: constructing a handle while a segment with the key exists does not
\* fail at shmget, whatever the two sizes are: init() goes on to attach
\* that segment.
C13_AcquireAttachesExisting ==
    [][\A h \in Handles, size \in Sizes :
        (KeySeg(segs, SegKey) # NoSeg /\ New(h, size))
        => /\ hnd'[h].pc = "got"
           /\ hnd'[h].pend = KeySeg(segs, SegKey)]_vars

C15_ReadsOnAfterReply ==
    [][(srv.pc = "recv" /\ srv'.pc # "recv") => srv.link = "closed"]_vars

\* C19: run() never ends, whatever the clients do.
C19_ServerSurvives ==
    srv.pc # "exited"

\* C16: a write() whose frame (4 + encoded length) exceeds the capacity
\* raises and leaves every byte of the segment as it was, so that read()
\* gives what it gave before.
C16_OversizeWriteTouchesNothing ==
    [][\A h \in Handles, v \in TornPayloads :
        (/\ Mapped(hnd[h])
         /\ HeaderLen + Len(JsonBytes(v)) > Capacity(hnd[h])
         /\ Write(h, v))
        => /\ last'.out.kind = "raise"
           /\ segs' = segs
           /\ ReadOut(hnd[h], segs') = ReadOut(hnd[h], segs)]_vars

\* C17: after a write() of the ctypes program has returned, every byte
\* of the handle's region behind the frame, [4 + n, size), is zero.
C17_ZeroBehindFrame ==
    (prog = "ctypes" /\ last.op = "write" /\ last.out.kind = "return") =>
        LET r == hnd[last.h]
            n == Len(JsonBytes(last.arg))
        IN  \A i \in (HeaderLen + n)..(r.size - 1) : segs[r.att].mem[i] = 0

\* A one-byte payload was written over a three-byte one through a handle
\* smaller than the segment: the byte behind the new frame reads zero, and
\* the last byte of the old payload, outside the handle's region, is still
\* there.
C17_Witness ==
    /\ prog = "ctypes" /\ last.op = "write" /\ last.out.kind = "return"
    /\ Len(JsonBytes(last.arg)) = 1
    /\ hnd[last.h].size = SmallSize
    /\ segs[hnd[last.h].att].size = BigSize
    /\ segs[hnd[last.h].att].mem[HeaderLen + 1] = 0
    /\ segs[hnd[last.h].att].mem[SmallSize] # 0

\* C18: init() on a handle that holds a mapping fails and leaves the
\* handle as it was, and no process ever holds a mapping that none of its
\* handles refers to.
C18_SecondMapRejected ==
    [][/\ \A h \in Handles :
            (Mapped(hnd[h]) /\ ReInit(h))
            => /\ last'.op = "init" /\ last'.h = h /\ last'.out.kind = "raise"
               /\ hnd'[h] = hnd[h]
       /\ \A h \in Handles : hnd'[h].leak = <<>>]_vars

====
